---------------------------- MODULE Spec2Model ----------------------------
(***************************************************************************)
(* A model of the gravitational engine of src/physics_engine.py:           *)
(* CelestialBody (construction, merge_with, is_collision_with, energy) and *)
(* GravityEngine (force calculation, Euler / RK4 integration, collision    *)
(* handling, diagnostics).                                                 *)
(*                                                                         *)
(* Numbers.  The program computes in float64.  The model computes in exact *)
(* rational arithmetic: a number is a pair <<n, d>> in lowest terms with   *)
(* d > 0; the three non-finite floats are <<0,0>> (nan), <<1,0>> (+inf)    *)
(* and <<-1,0>> (-inf), produced by a numpy division by zero as in the     *)
(* program.  Square roots are exact: the inputs of the model are chosen so *)
(* that every norm taken is rational, and TLC stops with an error if one   *)
(* is not.  A cube root that is irrational is kept as a surd (see         *)
(* Cbrt).  Rounding error of float64 is therefore outside the              *)
(* model; equalities are the ones that hold in real arithmetic.            *)
(***************************************************************************)
EXTENDS Integers, Sequences, FiniteSets, TLC

(***************************************************************************)
(* float64 scalars as exact rationals                                      *)
(***************************************************************************)
Abs(x) == IF x < 0 THEN -x ELSE x

Sign(x) == IF x < 0 THEN -1 ELSE IF x > 0 THEN 1 ELSE 0

RECURSIVE GCD(_, _)
GCD(a, b) == IF b = 0 THEN a ELSE GCD(b, a % b)

\* the float n/d (d # 0), in lowest terms
Rat(n, d) ==
    LET g == GCD(Abs(n), Abs(d))
        s == IF d < 0 THEN -1 ELSE 1
    IN  <<(s * n) \div g, (s * d) \div g>>

Num(n) == <<n, 1>>

NaN == <<0, 0>>

Inf(s) == <<Sign(s), 0>>

IsFinite(a) == a[2] # 0

IsNaN(a) == a = NaN

\* a + b (over the least common denominator, to keep the integers small)
FAdd(a, b) ==
    IF IsFinite(a) /\ IsFinite(b)
    THEN LET g == GCD(a[2], b[2])
         IN  Rat(a[1] * (b[2] \div g) + b[1] * (a[2] \div g), (a[2] \div g) * b[2])
    ELSE IF IsNaN(a) \/ IsNaN(b) THEN NaN
    ELSE IF IsFinite(a) THEN b
    ELSE IF IsFinite(b) THEN a
    ELSE IF a = b THEN a ELSE NaN

\* -a
FNeg(a) == <<-a[1], a[2]>>

\* a - b
FSub(a, b) == FAdd(a, FNeg(b))

\* a * b (cancelling across before multiplying, to keep the integers small)
FMul(a, b) ==
    IF IsFinite(a) /\ IsFinite(b)
    THEN LET g1 == GCD(Abs(a[1]), b[2])
             g2 == GCD(Abs(b[1]), a[2])
         IN  Rat((a[1] \div g1) * (b[1] \div g2), (a[2] \div g2) * (b[2] \div g1))
    ELSE IF IsNaN(a) \/ IsNaN(b) \/ a[1] = 0 \/ b[1] = 0 THEN NaN
    ELSE Inf(a[1] * b[1])

\* a / b with numpy's semantics: x/0 is +-inf, 0/0 is nan, no exception
FDiv(a, b) ==
    IF IsFinite(a) /\ IsFinite(b)
    THEN IF b[1] = 0 THEN Inf(a[1])
         ELSE FMul(a, IF b[1] > 0 THEN <<b[2], b[1]>> ELSE <<-b[2], -b[1]>>)
    ELSE IF IsNaN(a) \/ IsNaN(b) THEN NaN
    ELSE IF IsFinite(a) THEN Num(0)
    ELSE IF IsFinite(b) THEN Inf(a[1] * (IF b[1] < 0 THEN -1 ELSE 1))
    ELSE NaN

\* a < b (false when either is nan)
FLess(a, b) ==
    IF IsNaN(a) \/ IsNaN(b) THEN FALSE
    ELSE IF IsFinite(a) /\ IsFinite(b)
         THEN LET g == GCD(a[2], b[2])
              IN  a[1] * (b[2] \div g) < b[1] * (a[2] \div g)
    ELSE IF IsFinite(a) THEN b[1] > 0
    ELSE IF IsFinite(b) THEN a[1] < 0
    ELSE a[1] < b[1]

\* a == b (false when either is nan)
FEq(a, b) == ~IsNaN(a) /\ ~IsNaN(b) /\ a = b

\* a > b
FGreater(a, b) == FLess(b, a)

\* the largest r in lo..hi with r*r <= n
RECURSIVE SqrtSearch(_, _, _)
SqrtSearch(n, lo, hi) ==
    IF lo >= hi THEN lo
    ELSE LET mid == (lo + hi + 1) \div 2
         IN  IF mid * mid <= n THEN SqrtSearch(n, mid, hi)
             ELSE SqrtSearch(n, lo, mid - 1)

\* the exact integer square root of a perfect square n; no value otherwise
ISqrt(n) ==
    LET r == SqrtSearch(n, 0, IF n < 46340 THEN n ELSE 46340)
    IN  IF r * r = n THEN r ELSE CHOOSE x \in {} : TRUE

\* sqrt(a)
FSqrt(a) ==
    IF IsFinite(a)
    THEN IF a[1] < 0 THEN NaN ELSE <<ISqrt(a[1]), ISqrt(a[2])>>
    ELSE IF a = Inf(1) THEN a ELSE NaN

(***************************************************************************)
(* numpy arrays of shape (3,)                                              *)
(***************************************************************************)
Zeros3 == <<Num(0), Num(0), Num(0)>>

Vec(x, y, z) == <<Num(x), Num(y), Num(z)>>

VAdd(u, v) == [i \in 1..3 |-> FAdd(u[i], v[i])]

VSub(u, v) == [i \in 1..3 |-> FSub(u[i], v[i])]

\* v * s
VScale(v, s) == [i \in 1..3 |-> FMul(v[i], s)]

\* v / s
VDiv(v, s) == [i \in 1..3 |-> FDiv(v[i], s)]

\* np.cross
Cross(a, b) ==
    <<FSub(FMul(a[2], b[3]), FMul(a[3], b[2])),
      FSub(FMul(a[3], b[1]), FMul(a[1], b[3])),
      FSub(FMul(a[1], b[2]), FMul(a[2], b[1]))>>

FAbs(a) == <<Abs(a[1]), a[2]>>

\* np.linalg.norm(v) = sqrt(v[1]^2 + v[2]^2 + v[3]^2); on a vector along
\* one coordinate axis that is the absolute value of its component, taken
\* without squaring
Norm(v) ==
    IF v[2] = Num(0) /\ v[3] = Num(0) THEN FAbs(v[1])
    ELSE IF v[1] = Num(0) /\ v[3] = Num(0) THEN FAbs(v[2])
    ELSE IF v[1] = Num(0) /\ v[2] = Num(0) THEN FAbs(v[3])
    ELSE FSqrt(FAdd(FAdd(FMul(v[1], v[1]), FMul(v[2], v[2])), FMul(v[3], v[3])))

VFinite(v) == \A i \in 1..3 : IsFinite(v[i])


(***************************************************************************)
(* A radius is a float that only ever enters a cube, a cube root and the   *)
(* collision test.  It is a rational <<n, d>>, or the surd <<n, d, 3>>     *)
(* standing for the irrational cube root of the rational n/d > 0.          *)
(***************************************************************************)
IsSurd(r) == Len(r) = 3

\* the largest r in lo..hi with r*r*r <= n
RECURSIVE CbrtSearch(_, _, _)
CbrtSearch(n, lo, hi) ==
    IF lo >= hi THEN lo
    ELSE LET mid == (lo + hi + 1) \div 2
         IN  IF mid * mid * mid <= n THEN CbrtSearch(n, mid, hi)
             ELSE CbrtSearch(n, lo, mid - 1)

ICbrtFloor(n) == CbrtSearch(n, 0, IF n < 1290 THEN n ELSE 1290)

IsCube(n) == LET r == ICbrtFloor(n) IN r * r * r = n

\* r ** 3
Pow3(r) == IF IsSurd(r) THEN <<r[1], r[2]>> ELSE FMul(FMul(r, r), r)

\* q ** (1/3) for a float q >= 0
Cbrt(q) ==
    IF ~IsFinite(q) THEN q
    ELSE IF IsCube(q[1]) /\ IsCube(q[2])
         THEN <<ICbrtFloor(q[1]), ICbrtFloor(q[2])>>
         ELSE <<q[1], q[2], 3>>

\* d < r1 + r2, decided exactly.  With a = r1^3, b = r2^3 and s = r1 + r2,
\* s is the only positive root of t^3 - 3*cbrt(a*b)*t - (a+b), which is
\* negative on [0, s) and positive above s.
LessThanSum(d, r1, r2) ==
    IF ~IsSurd(r1) /\ ~IsSurd(r2) THEN FLess(d, FAdd(r1, r2))
    ELSE IF IsNaN(d) THEN FALSE
    ELSE IF FLess(d, Num(0)) THEN TRUE
    ELSE LET a  == Pow3(r1)
             b  == Pow3(r2)
             d3 == FMul(FMul(d, d), d)
             e  == FSub(d3, FAdd(a, b))
         IN  IF FLess(e, Num(0)) THEN TRUE
             ELSE IF e = Num(0) THEN FLess(Num(0), FMul(FMul(a, b), d))
             ELSE FLess(FMul(FMul(e, e), e),
                        FMul(Num(27), FMul(FMul(a, b), d3)))

(***************************************************************************)
(* class CelestialBody                                                     *)
(***************************************************************************)
\* the gravitational constant, in the model's units: the unit of time is
\* chosen so that G = 1 (the program's 6.67430e-11 is its value in SI units)
G == 1

\* the value of max_trail_length set by the constructor
max_trail_length == 1000

\* CelestialBody.__init__: every mass and radius is accepted; the object is
\* stored under `key` of the dict
CelestialBody(key, mass, radius, position, velocity) ==
    [key          |-> key,
     mass         |-> mass,
     radius       |-> radius,
     position     |-> position,
     velocity     |-> velocity,
     trail        |-> <<>>,
     orbit_calculated |-> FALSE,
     semi_major_axis  |-> Num(0),
     eccentricity     |-> Num(0),
     period           |-> Num(0),
     acceleration |-> Zeros3]

\* central_body is None
None == [key |-> "None"]

\* abs(energy) > 1e-10.  A finite value of the model is a fraction with a
\* denominator below 2^31, so that its absolute value exceeds 1e-10 exactly
\* when it is not zero.
AboveTolerance(energy) ==
    IF IsNaN(energy) THEN FALSE
    ELSE IF IsFinite(energy) THEN energy[1] # 0
    ELSE TRUE

\* 2 * math.pi * math.sqrt(q), kept as the symbol <<n, d, 2>> of 2 pi sqrt(n/d)
TwoPiSqrt(q) == IF IsFinite(q) THEN <<q[1], q[2], 2>> ELSE q

\* OrbitElements without `if h == 0: return`
OrbitElementsUnchecked(self, r_vec, v_vec, r, v, mu, h_vec) ==
    LET energy          == FSub(FMul(FMul(Rat(1, 2), v), v), FDiv(mu, r))
        semi_major_axis == IF AboveTolerance(energy)
                           THEN FDiv(FNeg(mu), FMul(Num(2), energy))
                           ELSE Inf(1)
        e_vec           == VSub(VDiv(Cross(v_vec, h_vec), mu), VDiv(r_vec, r))
        period          == IF FGreater(semi_major_axis, Num(0)) /\ semi_major_axis # Inf(1)
                           THEN TwoPiSqrt(FDiv(FMul(FMul(semi_major_axis, semi_major_axis),
                                                    semi_major_axis), mu))
                           ELSE Inf(1)
    IN  [self EXCEPT !.semi_major_axis  = semi_major_axis,
                     !.eccentricity     = Norm(e_vec),
                     !.period           = period,
                     !.orbit_calculated = TRUE]

\* calculate_orbit_parameters from `h = np.linalg.norm(h_vec)` on
OrbitElements(self, r_vec, v_vec, r, v, mu, h_vec) ==
    LET energy          == FSub(FMul(FMul(Rat(1, 2), v), v), FDiv(mu, r))
        semi_major_axis == IF AboveTolerance(energy)
                           THEN FDiv(FNeg(mu), FMul(Num(2), energy))
                           ELSE Inf(1)
        e_vec           == VSub(VDiv(Cross(v_vec, h_vec), mu), VDiv(r_vec, r))
        period          == IF FGreater(semi_major_axis, Num(0)) /\ semi_major_axis # Inf(1)
                           THEN TwoPiSqrt(FDiv(FMul(FMul(semi_major_axis, semi_major_axis),
                                                    semi_major_axis), mu))
                           ELSE Inf(1)
    IN  IF FEq(Norm(h_vec), Num(0)) THEN self
        ELSE [self EXCEPT !.semi_major_axis  = semi_major_axis,
                          !.eccentricity     = Norm(e_vec),
                          !.period           = period,
                          !.orbit_calculated = TRUE]

\* calculate_orbit_parameters from `r_vec = ...` on
OrbitRelative(self, r_vec, v_vec, mu) ==
    IF FEq(Norm(r_vec), Num(0)) \/ FEq(Norm(v_vec), Num(0)) THEN self
    ELSE OrbitElements(self, r_vec, v_vec, Norm(r_vec), Norm(v_vec), mu,
                       Cross(r_vec, v_vec))

\* CelestialBody.calculate_orbit_parameters: the new state of self
calculate_orbit_parameters(self, central_body) ==
    IF central_body.key = "None" \/ central_body.key = self.key THEN self
    ELSE OrbitRelative(self, VSub(self.position, central_body.position),
                       VSub(self.velocity, central_body.velocity),
                       FMul(Num(G), FAdd(self.mass, central_body.mass)))

\* is_collision_with with `distance < self.radius`: the other body's radius
\* is forgotten
is_collision_with_own_radius(self, other) ==
    LET distance == Norm(VSub(self.position, other.position))
    IN  LessThanSum(distance, self.radius, Num(0))

\* is_collision_with with `distance <= (self.radius + other.radius)`
is_collision_with_touching(self, other) ==
    LET distance == Norm(VSub(self.position, other.position))
    IN  IF LessThanSum(distance, self.radius, other.radius) THEN TRUE
        ELSE IF IsSurd(self.radius) THEN FALSE
        ELSE IF IsSurd(other.radius) THEN FALSE
        ELSE FEq(distance, FAdd(self.radius, other.radius))

\* CelestialBody.is_collision_with
is_collision_with(self, other) ==
    LET distance == Norm(VSub(self.position, other.position))
    IN  LessThanSum(distance, self.radius, other.radius)

\* merge_with with the velocity the plain mean of the two velocities
merge_with_mean_velocity(self, other) ==
    LET total_mass   == FAdd(self.mass, other.mass)
        velocity     == VDiv(VAdd(self.velocity, other.velocity), Num(2))
        total_volume == FMul(Rat(4, 3), FAdd(Pow3(self.radius), Pow3(other.radius)))
        radius       == Cbrt(FDiv(FMul(total_volume, Num(3)), Num(4)))
        position     == VDiv(VAdd(VScale(self.position, total_mass),
                                  VScale(other.position, other.mass)),
                             total_mass)
    IN  [self EXCEPT !.velocity = velocity, !.mass = total_mass,
                     !.radius = radius, !.position = position]

\* merge_with with the radii added instead of the volumes
merge_with_added_radii(self, other) ==
    LET total_mass   == FAdd(self.mass, other.mass)
        velocity     == VDiv(VAdd(VScale(self.velocity, self.mass),
                                  VScale(other.velocity, other.mass)),
                             total_mass)
        radius       == FAdd(self.radius, other.radius)
        position     == VDiv(VAdd(VScale(self.position, total_mass),
                                  VScale(other.position, other.mass)),
                             total_mass)
    IN  [self EXCEPT !.velocity = velocity, !.mass = total_mass,
                     !.radius = radius, !.position = position]

\* merge_with without `self.mass = total_mass`
merge_with_own_mass(self, other) ==
    LET total_mass   == FAdd(self.mass, other.mass)
        velocity     == VDiv(VAdd(VScale(self.velocity, self.mass),
                                  VScale(other.velocity, other.mass)),
                             total_mass)
        total_volume == FMul(Rat(4, 3), FAdd(Pow3(self.radius), Pow3(other.radius)))
        radius       == Cbrt(FDiv(FMul(total_volume, Num(3)), Num(4)))
        position     == VDiv(VAdd(VScale(self.position, self.mass),
                                  VScale(other.position, other.mass)),
                             total_mass)
    IN  [self EXCEPT !.velocity = velocity, !.radius = radius, !.position = position]

\* CelestialBody.merge_with: the new state of self.  total_volume is kept
\* in units of pi, which cancels in the radius.
merge_with(self, other) ==
    LET total_mass   == FAdd(self.mass, other.mass)
        velocity     == VDiv(VAdd(VScale(self.velocity, self.mass),
                                  VScale(other.velocity, other.mass)),
                             total_mass)
        mass         == total_mass
        total_volume == FMul(Rat(4, 3), FAdd(Pow3(self.radius), Pow3(other.radius)))
        radius       == Cbrt(FDiv(FMul(total_volume, Num(3)), Num(4)))
        \* self.mass is already total_mass when the position is computed
        position     == VDiv(VAdd(VScale(self.position, mass),
                                  VScale(other.position, other.mass)),
                             total_mass)
    IN  [self EXCEPT !.velocity = velocity, !.mass = mass,
                     !.radius = radius, !.position = position]

\* CelestialBody.get_kinetic_energy
get_kinetic_energy(self) ==
    LET speed == Norm(self.velocity)
    IN  FMul(FMul(FMul(Rat(1, 2), self.mass), speed), speed)

\* the loop of get_potential_energy over other_bodies[k..]
RECURSIVE PotentialLoop(_, _, _, _)
PotentialLoop(self, other_bodies, k, potential_energy) ==
    IF k > Len(other_bodies) THEN potential_energy
    ELSE LET other    == other_bodies[k]
             distance == Norm(VSub(self.position, other.position))
         IN  IF other.key # self.key /\ FGreater(distance, Num(0))
             THEN PotentialLoop(self, other_bodies, k + 1,
                      FSub(potential_energy,
                           FDiv(FMul(FMul(Num(G), self.mass), other.mass), distance)))
             ELSE PotentialLoop(self, other_bodies, k + 1, potential_energy)

\* CelestialBody.get_potential_energy
get_potential_energy(self, other_bodies) ==
    PotentialLoop(self, other_bodies, 1, Num(0))


(***************************************************************************)
(* class GravityEngine.  The dict `bodies` is the sequence of its values   *)
(* in insertion order, each carrying its key; a dict keyed by the body     *)
(* keys (forces, k1_pos, ...) is a function on the keys.                   *)
(***************************************************************************)
KeysOf(bodies) == {bodies[i].key : i \in 1..Len(bodies)}

\* the pairs (i, j), i < j <= n, in the order of the two nested range loops
RECURSIVE PairsFrom(_, _, _)
PairsFrom(i, j, n) ==
    IF i >= n THEN <<>>
    ELSE IF j > n THEN PairsFrom(i + 1, i + 2, n)
    ELSE <<<<i, j>>>> \o PairsFrom(i, j + 1, n)

\* ForcePair with `forces[body_keys[j]] += ...`: both bodies of the pair
\* receive the same force
ForcePairBothAdded(bodies, i, j, forces) ==
    LET body1           == bodies[i]
        body2           == bodies[j]
        r_vec           == VSub(body2.position, body1.position)
        r               == Norm(r_vec)
        force_magnitude == FDiv(FMul(FMul(Num(G), body1.mass), body2.mass), FMul(r, r))
        f               == VScale(VDiv(r_vec, r), force_magnitude)
    IN  IF FEq(r, Num(0)) THEN forces
        ELSE [forces EXCEPT ![body1.key] = VAdd(forces[body1.key], f),
                            ![body2.key] = VAdd(forces[body2.key], f)]

\* ForcePair with `r_vec = body1.position - body2.position`: the pair repels
ForcePairReversed(bodies, i, j, forces) ==
    LET body1           == bodies[i]
        body2           == bodies[j]
        r_vec           == VSub(body1.position, body2.position)
        r               == Norm(r_vec)
        force_magnitude == FDiv(FMul(FMul(Num(G), body1.mass), body2.mass), FMul(r, r))
        f               == VScale(VDiv(r_vec, r), force_magnitude)
    IN  IF FEq(r, Num(0)) THEN forces
        ELSE [forces EXCEPT ![body1.key] = VAdd(forces[body1.key], f),
                            ![body2.key] = VSub(forces[body2.key], f)]

\* ForcePair without `if r == 0: continue`
ForcePairUnguarded(bodies, i, j, forces) ==
    LET body1           == bodies[i]
        body2           == bodies[j]
        r_vec           == VSub(body2.position, body1.position)
        r               == Norm(r_vec)
        force_magnitude == FDiv(FMul(FMul(Num(G), body1.mass), body2.mass), FMul(r, r))
        f               == VScale(VDiv(r_vec, r), force_magnitude)
    IN  [forces EXCEPT ![body1.key] = VAdd(forces[body1.key], f),
                       ![body2.key] = VSub(forces[body2.key], f)]

\* the body of the inner loop of calculate_gravitational_forces for (i, j)
ForcePair(bodies, i, j, forces) ==
    LET body1           == bodies[i]
        body2           == bodies[j]
        r_vec           == VSub(body2.position, body1.position)
        r               == Norm(r_vec)
        force_magnitude == FDiv(FMul(FMul(Num(G), body1.mass), body2.mass), FMul(r, r))
        force_direction == VDiv(r_vec, r)
        f               == VScale(force_direction, force_magnitude)
    IN  IF FEq(r, Num(0)) THEN forces
        ELSE [forces EXCEPT ![body1.key] = VAdd(forces[body1.key], f),
                            ![body2.key] = VSub(forces[body2.key], f)]

RECURSIVE ForceLoop(_, _, _, _)
ForceLoop(bodies, pairs, k, forces) ==
    IF k > Len(pairs) THEN forces
    ELSE ForceLoop(bodies, pairs, k + 1,
                   ForcePair(bodies, pairs[k][1], pairs[k][2], forces))

\* GravityEngine.calculate_gravitational_forces
calculate_gravitational_forces(bodies) ==
    ForceLoop(bodies, PairsFrom(1, 2, Len(bodies)), 1,
              [key \in KeysOf(bodies) |-> Zeros3])

\* GravityEngine.update_accelerations
update_accelerations(bodies, forces) ==
    [i \in 1..Len(bodies) |->
        IF FGreater(bodies[i].mass, Num(0))
        THEN [bodies[i] EXCEPT !.acceleration = VDiv(forces[bodies[i].key], bodies[i].mass)]
        ELSE bodies[i]]

\* CelestialBody.update_velocity
update_velocity(self, dt) ==
    [self EXCEPT !.velocity = VAdd(self.velocity, VScale(self.acceleration, dt))]

\* update_position without `self.trail.pop(0)`
update_position_unbounded(self, dt) ==
    LET position == VAdd(self.position, VScale(self.velocity, dt))
    IN  [self EXCEPT !.position = position, !.trail = Append(self.trail, position)]

\* CelestialBody.update_position
update_position(self, dt) ==
    LET position == VAdd(self.position, VScale(self.velocity, dt))
        trail    == Append(self.trail, position)
    IN  [self EXCEPT !.position = position,
                     !.trail = IF Len(trail) > max_trail_length THEN Tail(trail) ELSE trail]

\* euler_integration with update_position called before update_velocity
euler_integration_explicit(bodies, dt) ==
    LET forces == calculate_gravitational_forces(bodies)
        accel  == update_accelerations(bodies, forces)
    IN  [i \in 1..Len(bodies) |-> update_velocity(update_position(accel[i], dt), dt)]

\* GravityEngine.euler_integration
euler_integration(bodies, dt) ==
    LET forces == calculate_gravitational_forces(bodies)
        accel  == update_accelerations(bodies, forces)
    IN  [i \in 1..Len(bodies) |-> update_position(update_velocity(accel[i], dt), dt)]

\* GravityEngine._rk4_step: (positions, velocities), the rates of change
rk4_step(bodies, dt, t) ==
    LET forces == calculate_gravitational_forces(bodies)
        at(key) == CHOOSE i \in 1..Len(bodies) : bodies[i].key = key
    IN  [positions  |-> [key \in KeysOf(bodies) |-> bodies[at(key)].velocity],
         velocities |-> [key \in KeysOf(bodies) |->
                            IF FGreater(bodies[at(key)].mass, Num(0))
                            THEN VDiv(forces[key], bodies[at(key)].mass)
                            ELSE Zeros3]]

\* (k1 + 2*k2 + 2*k3 + k4) * dt / 6
Rk4Sum(k1, k2, k3, k4, dt) ==
    VDiv(VScale(VAdd(VAdd(VAdd(k1, VScale(k2, Num(2))), VScale(k3, Num(2))), k4), dt),
         Num(6))

\* rk4_integration, a half stage: temp_bodies with position + k * 0.5 * dt
\* and velocity + k * 0.5 * dt
Rk4Half(bodies, k, dt) ==
    [i \in 1..Len(bodies) |->
        [bodies[i] EXCEPT
           !.position = VAdd(bodies[i].position,
                             VScale(VScale(k.positions[bodies[i].key], Rat(1, 2)), dt)),
           !.velocity = VAdd(bodies[i].velocity,
                             VScale(VScale(k.velocities[bodies[i].key], Rat(1, 2)), dt))]]

\* rk4_integration, the full stage: temp_bodies with position + k3 * dt and
\* velocity + k3 * dt
Rk4Full(bodies, k, dt) ==
    [i \in 1..Len(bodies) |->
        [bodies[i] EXCEPT
           !.position = VAdd(bodies[i].position, VScale(k.positions[bodies[i].key], dt)),
           !.velocity = VAdd(bodies[i].velocity, VScale(k.velocities[bodies[i].key], dt))]]

\* rk4_integration, the final loop: position and velocity of every body
\* advance by the weighted sum; trail and acceleration are not touched
Rk4Update(bodies, k1, k2, k3, k4, dt) ==
    [i \in 1..Len(bodies) |->
        [bodies[i] EXCEPT
           !.position = VAdd(bodies[i].position,
               Rk4Sum(k1.positions[bodies[i].key], k2.positions[bodies[i].key],
                      k3.positions[bodies[i].key], k4.positions[bodies[i].key], dt)),
           !.velocity = VAdd(bodies[i].velocity,
               Rk4Sum(k1.velocities[bodies[i].key], k2.velocities[bodies[i].key],
                      k3.velocities[bodies[i].key], k4.velocities[bodies[i].key], dt))]]

\* rk4_integration from k4 on, from k3 on and from k2 on
Rk4From3(bodies, dt, k1, k2, k3) ==
    Rk4Update(bodies, k1, k2, k3, rk4_step(Rk4Full(bodies, k3, dt), dt, dt), dt)

Rk4From2(bodies, dt, k1, k2) ==
    Rk4From3(bodies, dt, k1, k2,
             rk4_step(Rk4Half(bodies, k2, dt), dt, FMul(Rat(1, 2), dt)))

\* Rk4From1 with the bodies left as the k1 stage moved them: the later
\* stages and the final update build on that stage
Rk4From1Accumulating(bodies, dt, k1) ==
    Rk4From2(Rk4Half(bodies, k1, dt), dt, k1,
             rk4_step(Rk4Half(bodies, k1, dt), dt, FMul(Rat(1, 2), dt)))

Rk4From1(bodies, dt, k1) ==
    Rk4From2(bodies, dt, k1,
             rk4_step(Rk4Half(bodies, k1, dt), dt, FMul(Rat(1, 2), dt)))

\* GravityEngine.rk4_integration
rk4_integration(bodies, dt) == Rk4From1(bodies, dt, rk4_step(bodies, dt, Num(0)))

\* del bodies[bodies[j].key]
DictDel(bodies, j) == SubSeq(bodies, 1, j - 1) \o SubSeq(bodies, j + 1, Len(bodies))

(***************************************************************************)
(* GravityEngine.handle_collisions.  Both loops iterate the dict itself.   *)
(* A dict iterator remembers the size the dict had when it was created     *)
(* (`used`); every fetch of the next key first compares it with the        *)
(* present size and raises RuntimeError("dictionary changed size during    *)
(* iteration") when they differ.  HcOuter is the fetch of the outer loop   *)
(* for index i, HcInner the fetch of the inner loop for index j.  The      *)
(* result is the dict as the call leaves it and the exception raised.      *)
(***************************************************************************)
RECURSIVE HcOuter(_, _, _), HcInner(_, _, _, _, _)
HcOuter(bodies, i, used) ==
    IF Len(bodies) # used THEN [bodies |-> bodies, raised |-> "RuntimeError"]
    ELSE IF i > Len(bodies) THEN [bodies |-> bodies, raised |-> "none"]
    ELSE HcInner(bodies, i, used, 1, Len(bodies))

HcInner(bodies, i, usedOuter, j, used) ==
    IF Len(bodies) # used THEN [bodies |-> bodies, raised |-> "RuntimeError"]
    ELSE IF j > Len(bodies) THEN HcOuter(bodies, i + 1, usedOuter)
    ELSE IF i >= j THEN HcInner(bodies, i, usedOuter, j + 1, used)
    ELSE IF is_collision_with(bodies[i], bodies[j])
         THEN \* merge, delete, break: the outer loop fetches its next key
              HcOuter(DictDel([bodies EXCEPT ![i] = merge_with(bodies[i], bodies[j])], j),
                      i + 1, usedOuter)
         ELSE HcInner(bodies, i, usedOuter, j + 1, used)

handle_collisions(bodies) == HcOuter(bodies, 1, Len(bodies))

\* GravityEngine.update_positions
update_positions(bodies, dt, use_rk4) ==
    handle_collisions(IF use_rk4 THEN rk4_integration(bodies, dt)
                      ELSE euler_integration(bodies, dt))


\* the keys the scene loaders give, in insertion order, and their order as
\* Python strings (body_key_1 >= body_key_2 compares the strings)
KeyNames == <<"sun", "earth", "moon", "mars", "venus">>

KeyRank == [k \in {"earth", "mars", "moon", "sun", "venus"} |->
               CASE k = "earth" -> 1 [] k = "mars" -> 2 [] k = "moon" -> 3
                 [] k = "sun" -> 4 [] OTHER -> 5]

\* EnergyPair without `if body_key_1 >= body_key_2: continue`
EnergyPairUnfiltered(bodies, i, j, total_potential) ==
    LET body_1   == bodies[i]
        body_2   == bodies[j]
        distance == Norm(VSub(body_1.position, body_2.position))
    IN  IF FGreater(distance, Num(0))
        THEN FSub(total_potential,
                  FDiv(FMul(FMul(Num(G), body_1.mass), body_2.mass), distance))
        ELSE total_potential

\* the inner loop body of calculate_system_energy for the items i and j
EnergyPair(bodies, i, j, total_potential) ==
    LET body_1   == bodies[i]
        body_2   == bodies[j]
        distance == Norm(VSub(body_1.position, body_2.position))
    IN  IF KeyRank[body_1.key] >= KeyRank[body_2.key] THEN total_potential
        ELSE IF FGreater(distance, Num(0))
             THEN FSub(total_potential,
                       FDiv(FMul(FMul(Num(G), body_1.mass), body_2.mass), distance))
             ELSE total_potential

\* the two nested loops over bodies.items(), from item (i, j) on
RECURSIVE EnergyLoop(_, _, _, _)
EnergyLoop(bodies, i, j, total_potential) ==
    IF i > Len(bodies) THEN total_potential
    ELSE IF j > Len(bodies) THEN EnergyLoop(bodies, i + 1, 1, total_potential)
    ELSE EnergyLoop(bodies, i, j + 1, EnergyPair(bodies, i, j, total_potential))

RECURSIVE KineticLoop(_, _, _)
KineticLoop(bodies, i, total_kinetic) ==
    IF i > Len(bodies) THEN total_kinetic
    ELSE KineticLoop(bodies, i + 1, FAdd(total_kinetic, get_kinetic_energy(bodies[i])))

\* GravityEngine.calculate_system_energy
calculate_system_energy(bodies) ==
    FAdd(KineticLoop(bodies, 1, Num(0)), EnergyLoop(bodies, 1, 1, Num(0)))


\* GravityEngine.calculate_angular_momentum, from bodies[i] on
RECURSIVE AngularLoop(_, _, _)
AngularLoop(bodies, i, total_angular_momentum) ==
    IF i > Len(bodies) THEN total_angular_momentum
    ELSE AngularLoop(bodies, i + 1,
             VAdd(total_angular_momentum,
                  Cross(bodies[i].position, VScale(bodies[i].velocity, bodies[i].mass))))

calculate_angular_momentum(bodies) == AngularLoop(bodies, 1, Zeros3)

\* sum(body.mass for body in bodies.values()), from bodies[i] on
RECURSIVE MassSum(_, _, _)
MassSum(bodies, i, total) ==
    IF i > Len(bodies) THEN total
    ELSE MassSum(bodies, i + 1, FAdd(total, bodies[i].mass))

\* the loop `center_of_mass += body.mass * body.position`, from bodies[i] on
RECURSIVE CenterLoop(_, _, _)
CenterLoop(bodies, i, center_of_mass) ==
    IF i > Len(bodies) THEN center_of_mass
    ELSE CenterLoop(bodies, i + 1,
             VAdd(center_of_mass, VScale(bodies[i].position, bodies[i].mass)))

\* find_center_of_mass dividing by the number of bodies instead of the
\* total mass
find_center_of_mass_per_body(bodies) ==
    IF FEq(MassSum(bodies, 1, Num(0)), Num(0)) THEN Zeros3
    ELSE VDiv(CenterLoop(bodies, 1, Zeros3), Num(Len(bodies)))

\* find_center_of_mass without `if total_mass == 0`
find_center_of_mass_unchecked(bodies) ==
    VDiv(CenterLoop(bodies, 1, Zeros3), MassSum(bodies, 1, Num(0)))

\* GravityEngine.find_center_of_mass
find_center_of_mass(bodies) ==
    IF FEq(MassSum(bodies, 1, Num(0)), Num(0)) THEN Zeros3
    ELSE VDiv(CenterLoop(bodies, 1, Zeros3), MassSum(bodies, 1, Num(0)))

\* the loop `center_of_mass_velocity += body.mass * body.velocity`
RECURSIVE CenterVelocityLoop(_, _, _)
CenterVelocityLoop(bodies, i, center_of_mass_velocity) ==
    IF i > Len(bodies) THEN center_of_mass_velocity
    ELSE CenterVelocityLoop(bodies, i + 1,
             VAdd(center_of_mass_velocity, VScale(bodies[i].velocity, bodies[i].mass)))

\* find_center_of_mass_velocity with the plain sum of the velocities
RECURSIVE VelocitySum(_, _)
VelocitySum(bodies, i) ==
    IF i > Len(bodies) THEN Zeros3
    ELSE VAdd(bodies[i].velocity, VelocitySum(bodies, i + 1))

find_center_of_mass_velocity_unweighted(bodies) ==
    IF FEq(MassSum(bodies, 1, Num(0)), Num(0)) THEN Zeros3
    ELSE VDiv(VelocitySum(bodies, 1), Num(Len(bodies)))

\* GravityEngine.find_center_of_mass_velocity
find_center_of_mass_velocity(bodies) ==
    IF FEq(MassSum(bodies, 1, Num(0)), Num(0)) THEN Zeros3
    ELSE VDiv(CenterVelocityLoop(bodies, 1, Zeros3), MassSum(bodies, 1, Num(0)))

\* apply_correction, first loop: body.position -= com
Recentered(bodies, com) ==
    [i \in 1..Len(bodies) |->
        [bodies[i] EXCEPT !.position = VSub(bodies[i].position, com)]]

\* apply_correction, second loop: body.velocity -= com_velocity
Rested(bodies, com_velocity) ==
    [i \in 1..Len(bodies) |->
        [bodies[i] EXCEPT !.velocity = VSub(bodies[i].velocity, com_velocity)]]

\* apply_correction, first half: com = find_center_of_mass(bodies) and loop
RecenterPositions(bodies) == Recentered(bodies, find_center_of_mass(bodies))

\* apply_correction, second half: com_velocity and loop
RecenterVelocities(bodies) == Rested(bodies, find_center_of_mass_velocity(bodies))

\* GravityEngine.apply_correction
apply_correction(bodies) == RecenterVelocities(RecenterPositions(bodies))


(***************************************************************************)
(* The state machine: a driver that owns one GravityEngine and one dict of *)
(* bodies, fills the dict (as the scene loaders do) and then calls the     *)
(* engine.  `call` records the last call: its name, the dict as it was     *)
(* when the call started, the exception it raised and the value returned.  *)
(***************************************************************************)
VARIABLES bodies, use_rk4, call, steps, simulator, ui_manager, frame

vars == <<bodies, use_rk4, call, steps, simulator, ui_manager, frame>>

\* the application around the engine: the flags and the clock of the
\* CelestialSimulator, the flag of its UIManager, and the place an
\* update_positions call under way has reached
app == <<simulator, ui_manager, frame>>

\* bounds of the model
MaxBodies == 3

MaxSteps == 1

\* the (mass, radius) of the bodies created: massless, unit, and heavy with
\* no extent
Shapes == {<<0, 1>>, <<1, 1>>, <<2, 0>>}

\* points on the x axis, at the distances 0, 1, 2 and 3 of one another
Positions == {Vec(0, 0, 0), Vec(1, 0, 0), Vec(3, 0, 0)}

Velocities == {Vec(-1, 0, 0), Vec(1, 0, 0)}

TimeSteps == {Num(1)}

\* sqrt(a) is rational
HasSqrt(a) ==
    IF ~IsFinite(a) THEN TRUE
    ELSE IF a[1] < 0 THEN FALSE
    ELSE LET r == SqrtSearch(a[1], 0, IF a[1] < 46340 THEN a[1] ELSE 46340)
             q == SqrtSearch(a[2], 0, IF a[2] < 46340 THEN a[2] ELSE 46340)
         IN  r * r = a[1] /\ q * q = a[2]

NormIsRational(v) ==
    IF Cardinality({c \in 1..3 : v[c] # Num(0)}) <= 1 THEN TRUE
    ELSE HasSqrt(FAdd(FAdd(FMul(v[1], v[1]), FMul(v[2], v[2])), FMul(v[3], v[3])))

\* a float whose numerator and denominator leave room for the products of
\* one force or energy computation in TLC's 32-bit integers
Small(a) == Abs(a[1]) <= 100 /\ a[2] <= 100

\* a distance that leaves room for the cubes LessThanSum takes when a radius
\* is an irrational cube root
CubeSafe(b, c) ==
    IF ~IsSurd(b.radius) /\ ~IsSurd(c.radius) THEN TRUE
    ELSE LET d == Norm(VSub(b.position, c.position))
         IN  IF IsFinite(d) THEN d[1] <= 4 /\ d[2] <= 4 ELSE TRUE

\* the dicts the model queries: every norm the engine takes of the dict at
\* rest is rational, and every component is small
Exact(bs) ==
    {b \in {bs[i] : i \in 1..Len(bs)} :
        \/ ~NormIsRational(b.velocity)
        \/ \E c \in 1..3 : ~Small(b.position[c]) \/ ~Small(b.velocity[c])
        \/ \E j \in 1..Len(bs) : ~NormIsRational(VSub(b.position, bs[j].position))
        \/ \E j \in 1..Len(bs) : ~CubeSafe(b, bs[j])} = {}

\* the dicts the model integrates: bodies as constructed (no merged body),
\* at x = 0 or x = 1, moving along the x axis at speed 1, for which the
\* integers of the exact arithmetic of one step stay within TLC's 32 bits
Integrable(bs) ==
    {b \in {bs[i] : i \in 1..Len(bs)} :
        \/ <<b.mass, b.radius>> \notin {<<Num(shape[1]), Num(shape[2])>> : shape \in Shapes}
        \/ b.position \notin {Vec(0, 0, 0), Vec(1, 0, 0)}
        \/ b.velocity \notin {Vec(-1, 0, 0), Vec(1, 0, 0)}} = {}

NoCall == [op |-> "none", pre |-> <<>>, raised |-> "none", ret |-> "none"]

\* no update_positions call is under way
Idle == [pc |-> "idle", dt |-> Num(0), initial |-> <<>>, k |-> <<>>,
         force_calls |-> 0, collision_calls |-> 0, raised |-> "none"]

Init ==
    /\ bodies = <<>>
    /\ use_rk4 = TRUE
    /\ call = NoCall
    /\ steps = 0
    /\ simulator = [is_simulation_paused |-> FALSE, time_speed |-> Num(1),
                    simulation_time |-> Num(0)]
    /\ ui_manager = [is_simulation_paused |-> FALSE]
    /\ frame = Idle

\* bodies[key] = CelestialBody(...), while the scene is built
CreateBody ==
    /\ steps = 0
    /\ Len(bodies) < MaxBodies
    /\ \E shape \in Shapes, position \in Positions, velocity \in Velocities :
          bodies' = Append(bodies, CelestialBody(KeyNames[Len(bodies) + 1], Num(shape[1]),
                                                 Num(shape[2]), position, velocity))
    /\ call' = [op |-> "CelestialBody", pre |-> bodies, raised |-> "none", ret |-> "none"]
    /\ UNCHANGED <<use_rk4, steps>>
    /\ UNCHANGED app

\* CalculateForces with the forces also stored as accelerations of the bodies
CalculateForcesStoring ==
    /\ steps < MaxSteps
    /\ Exact(bodies)
    /\ call' = [op |-> "calculate_gravitational_forces", pre |-> bodies, raised |-> "none",
                ret |-> calculate_gravitational_forces(bodies)]
    /\ bodies' = update_accelerations(bodies, calculate_gravitational_forces(bodies))
    /\ steps' = steps + 1
    /\ UNCHANGED use_rk4
    /\ UNCHANGED app

\* forces = engine.calculate_gravitational_forces(bodies)
CalculateForces ==
    /\ steps < MaxSteps
    /\ Exact(bodies)
    /\ call' = [op |-> "calculate_gravitational_forces", pre |-> bodies, raised |-> "none",
                ret |-> calculate_gravitational_forces(bodies)]
    /\ steps' = steps + 1
    /\ UNCHANGED <<bodies, use_rk4>>
    /\ UNCHANGED app

\* engine.calculate_system_energy(bodies)
SystemEnergy ==
    /\ steps < MaxSteps
    /\ Exact(bodies)
    /\ call' = [op |-> "calculate_system_energy", pre |-> bodies, raised |-> "none",
                ret |-> calculate_system_energy(bodies)]
    /\ steps' = steps + 1
    /\ UNCHANGED <<bodies, use_rk4>>
    /\ UNCHANGED app

\* bodies[key].get_potential_energy(list(bodies.values()))
PotentialEnergy ==
    /\ steps < MaxSteps
    /\ Exact(bodies)
    /\ \E i \in 1..Len(bodies) :
          call' = [op |-> "get_potential_energy", pre |-> bodies, raised |-> "none",
                   ret |-> <<bodies[i].key, get_potential_energy(bodies[i], bodies)>>]
    /\ steps' = steps + 1
    /\ UNCHANGED <<bodies, use_rk4>>
    /\ UNCHANGED app

\* engine.calculate_angular_momentum(bodies)
AngularMomentum ==
    /\ steps < MaxSteps
    /\ Exact(bodies)
    /\ call' = [op |-> "calculate_angular_momentum", pre |-> bodies, raised |-> "none",
                ret |-> calculate_angular_momentum(bodies)]
    /\ steps' = steps + 1
    /\ UNCHANGED <<bodies, use_rk4>>
    /\ UNCHANGED app

\* engine.find_center_of_mass(bodies)
CenterOfMass ==
    /\ steps < MaxSteps
    /\ Exact(bodies)
    /\ call' = [op |-> "find_center_of_mass", pre |-> bodies, raised |-> "none",
                ret |-> find_center_of_mass(bodies)]
    /\ steps' = steps + 1
    /\ UNCHANGED <<bodies, use_rk4>>
    /\ UNCHANGED app

\* engine.find_center_of_mass_velocity(bodies)
CenterOfMassVelocity ==
    /\ steps < MaxSteps
    /\ Exact(bodies)
    /\ call' = [op |-> "find_center_of_mass_velocity", pre |-> bodies, raised |-> "none",
                ret |-> find_center_of_mass_velocity(bodies)]
    /\ steps' = steps + 1
    /\ UNCHANGED <<bodies, use_rk4>>
    /\ UNCHANGED app

\* engine.apply_correction(bodies)
ApplyCorrection ==
    /\ steps < MaxSteps
    /\ Exact(bodies)
    /\ bodies' = apply_correction(bodies)
    /\ call' = [op |-> "apply_correction", pre |-> bodies, raised |-> "none", ret |-> "none"]
    /\ steps' = steps + 1
    /\ UNCHANGED use_rk4
    /\ UNCHANGED app

\* engine.handle_collisions(bodies)
HandleCollisions ==
    /\ steps < MaxSteps
    /\ Exact(bodies)
    /\ LET r == handle_collisions(bodies)
       IN  /\ bodies' = r.bodies
           /\ call' = [op |-> "handle_collisions", pre |-> bodies, raised |-> r.raised,
                       ret |-> "none"]
    /\ steps' = steps + 1
    /\ UNCHANGED use_rk4
    /\ UNCHANGED app

\* engine.use_rk4 = rk4; engine.update_positions(bodies, dt)
UpdatePositions ==
    /\ steps < MaxSteps
    /\ Integrable(bodies)
    /\ \E rk4 \in BOOLEAN, dt \in TimeSteps :
          LET r == update_positions(bodies, dt, rk4)
          IN  /\ use_rk4' = rk4
              /\ bodies' = r.bodies
              /\ call' = [op |-> "update_positions", pre |-> bodies, raised |-> r.raised,
                          ret |-> dt]
    /\ steps' = steps + 1
    /\ UNCHANGED app

(***************************************************************************)
(* A second driver, for calculate_orbit_parameters: its bodies also move   *)
(* across the x axis, so that a body can have angular momentum about       *)
(* another.                                                                *)
(***************************************************************************)
MaxOrbitBodies == 2

OrbitMasses == {0, 1, 2}

OrbitPositions == {Vec(0, 0, 0), Vec(1, 0, 0), Vec(2, 0, 0)}

OrbitVelocities == {Vec(0, 0, 0), Vec(1, 0, 0), Vec(0, 1, 0)}

\* central_body number c of the dict; number 0 is None
Central(bs, c) == IF c = 0 THEN None ELSE bs[c]

\* the relative eccentricity vector calculate_orbit_parameters takes the
\* norm of
EVec(self, central_body) ==
    LET r_vec == VSub(self.position, central_body.position)
        v_vec == VSub(self.velocity, central_body.velocity)
    IN  VSub(VDiv(Cross(v_vec, Cross(r_vec, v_vec)),
                  FMul(Num(G), FAdd(self.mass, central_body.mass))),
             VDiv(r_vec, Norm(r_vec)))

\* every norm calculate_orbit_parameters takes is rational
OrbitExact(self, central_body) ==
    IF central_body.key = "None" THEN TRUE
    ELSE IF ~NormIsRational(VSub(self.position, central_body.position)) THEN FALSE
    ELSE IF ~NormIsRational(VSub(self.velocity, central_body.velocity)) THEN FALSE
    ELSE NormIsRational(EVec(self, central_body))

CreateOrbitBody ==
    /\ steps = 0
    /\ Len(bodies) < MaxOrbitBodies
    /\ \E mass \in OrbitMasses, position \in OrbitPositions, velocity \in OrbitVelocities :
          bodies' = Append(bodies, CelestialBody(KeyNames[Len(bodies) + 1], Num(mass),
                                                 Num(1), position, velocity))
    /\ call' = [op |-> "CelestialBody", pre |-> bodies, raised |-> "none", ret |-> "none"]
    /\ UNCHANGED <<use_rk4, steps>>
    /\ UNCHANGED app

\* bodies[key].calculate_orbit_parameters(central_body)
OrbitParameters ==
    /\ steps < MaxSteps
    /\ \E i \in 1..Len(bodies), c \in 0..Len(bodies) :
          /\ OrbitExact(bodies[i], Central(bodies, c))
          /\ bodies' = [bodies EXCEPT
                           ![i] = calculate_orbit_parameters(bodies[i], Central(bodies, c))]
          /\ call' = [op |-> "calculate_orbit_parameters", pre |-> bodies,
                      raised |-> "none", ret |-> <<i, c>>]
    /\ steps' = steps + 1
    /\ UNCHANGED use_rk4
    /\ UNCHANGED app

OrbitNext ==
    \/ CreateOrbitBody
    \/ OrbitParameters

OrbitSpec == Init /\ [][OrbitNext]_vars

(***************************************************************************)
(* A third driver, for the trail: one body, free of forces, is stepped by  *)
(* the Euler integrator more often than its trail has room.                *)
(***************************************************************************)
MaxTicks == 1002

CreateTrailBody ==
    /\ steps = 0
    /\ bodies = <<>>
    /\ \E position \in Positions, velocity \in Velocities :
          bodies' = <<CelestialBody(KeyNames[1], Num(1), Num(1), position, velocity)>>
    /\ call' = [op |-> "CelestialBody", pre |-> bodies, raised |-> "none", ret |-> "none"]
    /\ UNCHANGED <<use_rk4, steps>>
    /\ UNCHANGED app

\* engine.update_positions(bodies, dt) with use_rk4 = False, once per frame
TrailTick ==
    /\ steps < MaxTicks
    /\ Len(bodies) = 1
    /\ \E dt \in TimeSteps :
          LET r == update_positions(bodies, dt, FALSE)
          IN  /\ bodies' = r.bodies
              /\ call' = [op |-> "update_positions", pre |-> bodies, raised |-> r.raised,
                          ret |-> dt]
    /\ use_rk4' = FALSE
    /\ steps' = steps + 1
    /\ UNCHANGED app

TrailNext ==
    \/ CreateTrailBody
    \/ TrailTick

TrailSpec == Init /\ [][TrailNext]_vars

(***************************************************************************)
(* A fourth driver: one update_positions call taken a callee at a time.    *)
(* frame.pc is the statement the call has reached, frame.initial the       *)
(* initial_positions and initial_velocities of rk4_integration, frame.k    *)
(* the stage rates obtained so far; force_calls and collision_calls count  *)
(* the invocations of calculate_gravitational_forces and handle_collisions *)
(* of this call.  rk4_integration moves the bodies of the dict itself to   *)
(* every stage state before it asks for the next rates.                    *)
(***************************************************************************)
\* update_positions with the integrator always the Euler one
SchemeEulerOnly(rk4) == "euler_integration"

\* update_positions: `if self.use_rk4: ... else: ...`
Scheme(rk4) == IF rk4 THEN "k1" ELSE "euler_integration"

\* the moment t passed to _rk4_step at the stage pc
StageTime(pc, dt) == IF pc = "k1" THEN Num(0)
                     ELSE IF pc = "k4" THEN dt ELSE FMul(Rat(1, 2), dt)

\* the bodies as rk4_integration leaves them after the stage pc, ks being
\* the rates up to and including those of this stage
AfterStage(pc, initial, ks, dt) ==
    IF pc = "k1" \/ pc = "k2" THEN Rk4Half(initial, ks[Len(ks)], dt)
    ELSE IF pc = "k3" THEN Rk4Full(initial, ks[3], dt)
    ELSE Rk4Update(initial, ks[1], ks[2], ks[3], ks[4], dt)

NextStage(pc) == IF pc = "k1" THEN "k2"
                 ELSE IF pc = "k2" THEN "k3"
                 ELSE IF pc = "k3" THEN "k4" ELSE "handle_collisions"

\* engine.use_rk4 = rk4; engine.update_positions(bodies, dt) is entered
EnterUpdatePositions ==
    /\ steps < MaxSteps
    /\ frame.pc = "idle"
    /\ Integrable(bodies)
    /\ \E rk4 \in BOOLEAN, dt \in TimeSteps :
          /\ use_rk4' = rk4
          /\ frame' = [Idle EXCEPT !.pc = Scheme(rk4), !.dt = dt, !.initial = bodies]
          /\ call' = [op |-> "update_positions entered", pre |-> bodies, raised |-> "none",
                      ret |-> dt]
    /\ steps' = steps + 1
    /\ UNCHANGED <<bodies, simulator, ui_manager>>

\* self.euler_integration(bodies, dt)
EulerStep ==
    /\ frame.pc = "euler_integration"
    /\ bodies' = euler_integration(bodies, frame.dt)
    /\ frame' = [frame EXCEPT !.pc = "handle_collisions",
                              !.force_calls = frame.force_calls + 1]
    /\ UNCHANGED <<use_rk4, call, steps, simulator, ui_manager>>

\* one `k_pos, k_vel = self._rk4_step(bodies, dt, t)` of rk4_integration and
\* the loop over the bodies that follows it
Rk4Stage ==
    /\ frame.pc \in {"k1", "k2", "k3", "k4"}
    /\ bodies' = AfterStage(frame.pc, frame.initial,
                            Append(frame.k, rk4_step(bodies, frame.dt,
                                                     StageTime(frame.pc, frame.dt))),
                            frame.dt)
    /\ frame' = [frame EXCEPT !.pc = NextStage(frame.pc),
                              !.k = Append(frame.k, rk4_step(bodies, frame.dt,
                                                             StageTime(frame.pc, frame.dt))),
                              !.force_calls = frame.force_calls + 1]
    /\ UNCHANGED <<use_rk4, call, steps, simulator, ui_manager>>

\* self.handle_collisions(bodies), the last statement of update_positions
CollisionStep ==
    /\ frame.pc = "handle_collisions"
    /\ bodies' = handle_collisions(bodies).bodies
    /\ frame' = [frame EXCEPT !.pc = "return",
                              !.collision_calls = frame.collision_calls + 1,
                              !.raised = handle_collisions(bodies).raised]
    /\ UNCHANGED <<use_rk4, call, steps, simulator, ui_manager>>

StepNext ==
    \/ CreateBody
    \/ EnterUpdatePositions
    \/ EulerStep
    \/ Rk4Stage
    \/ CollisionStep

StepSpec == Init /\ [][StepNext]_vars

(***************************************************************************)
(* A fifth driver: the CelestialSimulator.  Its main loop handles the      *)
(* pending events and then calls update_physics, once per frame; here      *)
(* every key press, every click on the play/pause button and every         *)
(* update_physics call is one action.  An exception of update_positions    *)
(* leaves update_physics and the main loop, which ends the program.        *)
(***************************************************************************)
MaxSceneBodies == 2

\* the seconds per frame clock.tick(60) / 1000.0 gives, chosen such that
\* a time_speed of 1 or 2 makes the time_step one unit
FrameTimes == {Rat(1, 86400), Rat(1, 172800)}

\* the keys of handle_keydown that reach the simulation
Keys == {"K_SPACE", "K_c", "K_3", "K_PLUS", "K_MINUS"}

\* the dicts a scene loader leaves: bodies the model can integrate, the
\* first of them at the origin
Scenes ==
    UNION {
        {s \in {[i \in 1..n |-> CelestialBody(KeyNames[i], Num(f[i][1][1]),
                                               Num(f[i][1][2]), f[i][2], f[i][3])] :
                   f \in [1..n -> Shapes \X {Vec(0, 0, 0), Vec(1, 0, 0)} \X Velocities]} :
            s[1].position = Vec(0, 0, 0)} :
        n \in 1..MaxSceneBodies}

FMin(a, b) == IF FLess(b, a) THEN b ELSE a

FMax(a, b) == IF FLess(a, b) THEN b ELSE a

\* the main loop is running: no exception has left it
Running == call.raised = "none"

\* update_physics: time_step = dt * self.time_speed * 86400.0
TimeStep(dt, time_speed) == FMul(FMul(dt, time_speed), Num(86400))

\* a KEYDOWN event reaches CelestialSimulator.handle_keydown; the UIManager
\* gets the event too and does nothing with it while no text input is active
HandleKeydown ==
    /\ Running
    /\ \E key \in Keys :
          /\ simulator' =
                IF key = "K_SPACE"
                THEN [simulator EXCEPT
                         !.is_simulation_paused = ~simulator.is_simulation_paused]
                ELSE IF key = "K_PLUS"
                THEN [simulator EXCEPT
                         !.time_speed = FMin(Num(100), FMul(simulator.time_speed, Num(2)))]
                ELSE IF key = "K_MINUS"
                THEN [simulator EXCEPT
                         !.time_speed = FMax(Rat(1, 10),
                                             FMul(simulator.time_speed, Rat(1, 2)))]
                ELSE simulator
          /\ IF key = "K_c" THEN bodies' = <<>>
             ELSE IF key = "K_3" THEN bodies' \in Scenes
             ELSE bodies' = bodies
          /\ call' = [op |-> "handle_keydown", pre |-> <<>>, raised |-> "none",
                      ret |-> "none"]
    /\ UNCHANGED <<use_rk4, steps, ui_manager, frame>>

\* a click on the play/pause button: UIManager.on_button_click finds the
\* callback the simulator registered, CelestialSimulator.toggle_pause
ClickPlayPause ==
    /\ Running
    /\ simulator' = [simulator EXCEPT
                        !.is_simulation_paused = ~simulator.is_simulation_paused]
    /\ ui_manager' = [ui_manager EXCEPT
                         !.is_simulation_paused = ~simulator.is_simulation_paused]
    /\ call' = [op |-> "on_button_click", pre |-> <<>>, raised |-> "none",
                ret |-> "play_pause"]
    /\ UNCHANGED <<bodies, use_rk4, steps, frame>>

\* CelestialSimulator.update_physics(dt) with the simulation paused or no
\* body in the dict
UpdatePhysicsSkipped ==
    /\ Running
    /\ steps < MaxSteps
    /\ IF simulator.is_simulation_paused THEN TRUE ELSE bodies = <<>>
    /\ \E dt \in FrameTimes :
          call' = [op |-> "update_physics", pre |-> bodies, raised |-> "none",
                   ret |-> "none", dt |-> dt, before |-> simulator]
    /\ steps' = steps + 1
    /\ UNCHANGED <<bodies, use_rk4, simulator, ui_manager, frame>>

\* CelestialSimulator.update_physics(dt) otherwise
UpdatePhysicsStepped ==
    /\ Running
    /\ steps < MaxSteps
    /\ ~simulator.is_simulation_paused
    /\ bodies # <<>>
    /\ Integrable(bodies)
    /\ \E dt \in FrameTimes :
          /\ TimeStep(dt, simulator.time_speed) \in TimeSteps
          /\ bodies' = update_positions(bodies, TimeStep(dt, simulator.time_speed),
                                        use_rk4).bodies
          /\ call' = [op |-> "update_physics", pre |-> bodies,
                      raised |-> update_positions(bodies,
                                                  TimeStep(dt, simulator.time_speed),
                                                  use_rk4).raised,
                      ret |-> TimeStep(dt, simulator.time_speed), dt |-> dt,
                      before |-> simulator]
          /\ simulator' =
                IF update_positions(bodies, TimeStep(dt, simulator.time_speed),
                                    use_rk4).raised = "none"
                THEN [simulator EXCEPT !.simulation_time =
                         FAdd(simulator.simulation_time,
                              TimeStep(dt, simulator.time_speed))]
                ELSE simulator
    /\ steps' = steps + 1
    /\ UNCHANGED <<use_rk4, ui_manager, frame>>

SimNext ==
    \/ HandleKeydown
    \/ ClickPlayPause
    \/ UpdatePhysicsSkipped
    \/ UpdatePhysicsStepped

SimSpec == Init /\ [][SimNext]_vars

Next ==
    \/ CreateBody
    \/ CalculateForces
    \/ SystemEnergy
    \/ PotentialEnergy
    \/ AngularMomentum
    \/ CenterOfMass
    \/ CenterOfMassVelocity
    \/ ApplyCorrection
    \/ HandleCollisions
    \/ UpdatePositions

Spec == Init /\ [][Next]_vars

(***************************************************************************)
(* Properties.  The reference quantities below are written from Newton's   *)
(* law and from the geometry of the bodies, independently of the engine's  *)
(* loops; each property compares the outcome recorded in `call` with them. *)
(***************************************************************************)
Dot(a, b) == FAdd(FAdd(FMul(a[1], b[1]), FMul(a[2], b[2])), FMul(a[3], b[3]))

\* the pull of b on a: G * ma * mb / d^2 along the unit vector from a to b,
\* and nothing when the two are at the same point
Pull(a, b) ==
    LET d == VSub(b.position, a.position)
        r == Norm(d)
    IN  IF a.position = b.position THEN Zeros3
        ELSE VScale(d, FDiv(FMul(FMul(Num(G), a.mass), b.mass), FMul(FMul(r, r), r)))

\* the sum of the pulls on bs[k] of bs[j], bs[j+1], ...
RECURSIVE NetPull(_, _, _)
NetPull(bs, k, j) ==
    IF j > Len(bs) THEN Zeros3
    ELSE VAdd(IF j = k THEN Zeros3 ELSE Pull(bs[k], bs[j]), NetPull(bs, k, j + 1))

\* the potential energy of the pair: -G * ma * mb / d, and nothing when the
\* two are at the same point
PairPotential(a, b) ==
    IF a.position = b.position THEN Num(0)
    ELSE FNeg(FDiv(FMul(FMul(Num(G), a.mass), b.mass),
                   Norm(VSub(b.position, a.position))))

\* the sum of the potential energies of bs[k] with bs[j], bs[j+1], ...
RECURSIVE NetPotential(_, _, _)
NetPotential(bs, k, j) ==
    IF j > Len(bs) THEN Num(0)
    ELSE FAdd(IF j = k THEN Num(0) ELSE PairPotential(bs[k], bs[j]),
              NetPotential(bs, k, j + 1))

\* the sum of forces[key] over bs[i], bs[i+1], ...
RECURSIVE TotalForce(_, _, _)
TotalForce(forces, bs, i) ==
    IF i > Len(bs) THEN Zeros3
    ELSE VAdd(forces[bs[i].key], TotalForce(forces, bs, i + 1))

\* 1/2 m v.v summed over bs[i], bs[i+1], ... plus the potential of each pair
\* once
RECURSIVE ReferenceEnergy(_, _)
ReferenceEnergy(bs, i) ==
    IF i > Len(bs) THEN Num(0)
    ELSE FAdd(FAdd(FMul(FMul(Rat(1, 2), bs[i].mass), Dot(bs[i].velocity, bs[i].velocity)),
                   NetPotential(bs, i, i + 1)),
              ReferenceEnergy(bs, i + 1))

\* every mass, position and velocity of bs is a finite number
Finite(bs) ==
    \A i \in 1..Len(bs) :
        IsFinite(bs[i].mass) /\ VFinite(bs[i].position) /\ VFinite(bs[i].velocity)

\* forces were computed for a dict of finite bodies
ForcesCalled == call.op = "calculate_gravitational_forces" /\ Finite(call.pre)

\* C1: the forces calculate_gravitational_forces returns for a dict of
\* finite bodies sum to the zero vector, and in a dict of two bodies the
\* force on one is the negation of the force on the other.
C1_ForcesBalance ==
    ForcesCalled =>
        /\ TotalForce(call.ret, call.pre, 1) = Zeros3
        /\ Len(call.pre) = 2 =>
              call.ret[call.pre[1].key] = VScale(call.ret[call.pre[2].key], Num(-1))

\* forces were computed for three bodies, and none of the three is zero
C1_Witness ==
    /\ ForcesCalled
    /\ Len(call.pre) = 3
    /\ \A i \in 1..3 : call.ret[call.pre[i].key] # Zeros3

\* f points along the line from the point `from` to the point `to`
Toward(f, from, to) ==
    /\ Cross(f, VSub(to, from)) = Zeros3
    /\ FGreater(Dot(f, VSub(to, from)), Num(0))

\* C2: gravity attracts: in a dict of two massive bodies at distinct
\* positions, the force returned for each body points from it toward the
\* other.
C2_Attractive ==
    (/\ ForcesCalled
     /\ Len(call.pre) = 2
     /\ call.pre[1].position # call.pre[2].position
     /\ FGreater(call.pre[1].mass, Num(0))
     /\ FGreater(call.pre[2].mass, Num(0)))
    => /\ Toward(call.ret[call.pre[1].key], call.pre[1].position, call.pre[2].position)
       /\ Toward(call.ret[call.pre[2].key], call.pre[2].position, call.pre[1].position)

\* as in the test: the second body is at +x of the first, both are massive,
\* and the force on the second has a negative x component
C2_Witness ==
    /\ ForcesCalled
    /\ Len(call.pre) = 2
    /\ FGreater(call.pre[1].mass, Num(0))
    /\ FGreater(call.pre[2].mass, Num(0))
    /\ FLess(call.pre[1].position[1], call.pre[2].position[1])
    /\ FLess(call.ret[call.pre[2].key][1], Num(0))

\* C3: in a dict of finite bodies, bodies at the same point contribute no
\* mutual force and no mutual potential energy, no error is raised, and
\* every other pair contributes as Newton's law says: each result is the
\* sum of the reference contributions, in which a coincident pair counts
\* for nothing.
C3_CoincidentSkipped ==
    /\ ForcesCalled =>
          /\ call.raised = "none"
          /\ \A k \in 1..Len(call.pre) :
                call.ret[call.pre[k].key] = NetPull(call.pre, k, 1)
    /\ (call.op = "calculate_system_energy" /\ Finite(call.pre)) =>
          /\ call.raised = "none"
          /\ call.ret = ReferenceEnergy(call.pre, 1)
    /\ (call.op = "get_potential_energy" /\ Finite(call.pre)) =>
          /\ call.raised = "none"
          /\ \A k \in 1..Len(call.pre) :
                call.ret[1] = call.pre[k].key => call.ret[2] = NetPotential(call.pre, k, 1)

\* forces were computed for three massive bodies, the first two at the same
\* point and the third elsewhere: the first two feel only the third
C3_Witness ==
    /\ ForcesCalled
    /\ Len(call.pre) = 3
    /\ \A i \in 1..3 : FGreater(call.pre[i].mass, Num(0))
    /\ call.pre[1].position = call.pre[2].position
    /\ call.pre[3].position # call.pre[1].position
    /\ call.ret[call.pre[1].key] = Pull(call.pre[1], call.pre[3])
    /\ call.ret[call.pre[1].key] # Zeros3


\* the centres of a and b are closer than the sum of their radii
Overlaps(a, b) ==
    LessThanSum(Norm(VSub(a.position, b.position)), a.radius, b.radius)

\* the index pairs (i, j), i < j, of the bodies of bs that overlap
OverlapPairs(bs) ==
    {p \in (1..Len(bs)) \X (1..Len(bs)) : p[1] < p[2] /\ Overlaps(bs[p[1]], bs[p[2]])}

\* the overlapping pair a scan in collection order meets first
FirstOverlap(bs) ==
    CHOOSE p \in OverlapPairs(bs) :
        \A q \in OverlapPairs(bs) : p[1] < q[1] \/ (p[1] = q[1] /\ p[2] <= q[2])

\* handle_collisions was called on a dict of finite bodies in which some
\* pair overlaps
CollisionCalled ==
    call.op = "handle_collisions" /\ Finite(call.pre) /\ OverlapPairs(call.pre) # {}

\* body1 and body2 of the merge made by that call, as they were before it
Body1 == call.pre[FirstOverlap(call.pre)[1]]

Body2 == call.pre[FirstOverlap(call.pre)[2]]

\* every body that has body1's key after the call satisfies P, and there is one
Body1After(P(_)) ==
    /\ \E k \in 1..Len(bodies) : bodies[k].key = Body1.key
    /\ \A k \in 1..Len(bodies) : bodies[k].key = Body1.key => P(bodies[k])

\* C4: merge_with gives body1 the mass m1 + m2 and, when m1 + m2 is not
\* zero, the velocity (m1 v1 + m2 v2) / (m1 + m2), so that the momentum of
\* the merged body is the momentum the pair had.
C4_MergeMomentum ==
    CollisionCalled =>
        LET total    == FAdd(Body1.mass, Body2.mass)
            momentum == VAdd(VScale(Body1.velocity, Body1.mass),
                             VScale(Body2.velocity, Body2.mass))
        IN  Body1After(LAMBDA b :
                /\ b.mass = total
                /\ total # Num(0) =>
                      /\ b.velocity = VDiv(momentum, total)
                      /\ VScale(b.velocity, b.mass) = momentum)

\* a merge of two massive bodies of different mass and opposite velocity
C4_Witness ==
    /\ CollisionCalled
    /\ FGreater(Body1.mass, Num(0))
    /\ FGreater(Body2.mass, Num(0))
    /\ Body1.mass # Body2.mass
    /\ Body1.velocity # Body2.velocity
    /\ Body1After(LAMBDA b : b.mass = FAdd(Body1.mass, Body2.mass))

\* C5: merge_with moves body1 to the centroid
\* (mass1 position1 + mass2 position2) / (mass1 + mass2) of the two bodies
\* as they were before the merge.
C5_MergeCentroid ==
    (CollisionCalled /\ FAdd(Body1.mass, Body2.mass) # Num(0)) =>
        Body1After(LAMBDA b :
            b.position = VDiv(VAdd(VScale(Body1.position, Body1.mass),
                                   VScale(Body2.position, Body2.mass)),
                              FAdd(Body1.mass, Body2.mass)))

\* C6: the cube of the merged radius is radius1^3 + radius2^3, and a zero
\* radius of one operand leaves the radius of the other.
C6_MergeRadius ==
    CollisionCalled =>
        Body1After(LAMBDA b :
            /\ Pow3(b.radius) = FAdd(Pow3(Body1.radius), Pow3(Body2.radius))
            /\ Body1.radius = Num(0) => b.radius = Body2.radius
            /\ Body2.radius = Num(0) => b.radius = Body1.radius)

\* a merge of two bodies of radius 1: the merged radius is the cube root of 2
C6_Witness ==
    /\ CollisionCalled
    /\ Body1.radius = Num(1)
    /\ Body2.radius = Num(1)
    /\ Body1After(LAMBDA b : Pow3(b.radius) = Num(2))

\* C7: of every pair that overlaps when handle_collisions is called, at
\* most one key is left in the dict when the call ends.
C7_EveryPairMerged ==
    call.op = "handle_collisions" =>
        \A p \in OverlapPairs(call.pre) :
            ~(/\ call.pre[p[1]].key \in KeysOf(bodies)
              /\ call.pre[p[2]].key \in KeysOf(bodies))

\* C8: when some pair overlaps, handle_collisions resolves one collision:
\* the key of the later body of the pair is removed and no other, and the
\* earlier body keeps its key and its place and carries the merged mass and
\* volume.
C8_OneCollisionResolved ==
    CollisionCalled =>
        /\ KeysOf(bodies) = KeysOf(call.pre) \ {Body2.key}
        /\ Len(bodies) = Len(call.pre) - 1
        /\ Body1After(LAMBDA b :
              /\ b.mass = FAdd(Body1.mass, Body2.mass)
              /\ Pow3(b.radius) = FAdd(Pow3(Body1.radius), Pow3(Body2.radius)))
        /\ \A k \in 1..Len(bodies) :
              bodies[k].key # Body1.key =>
                  \E i \in 1..Len(call.pre) : call.pre[i] = bodies[k]

\* three bodies of which the first overlaps none and the last two overlap:
\* the third key is removed, the second carries the merge
C8_Witness ==
    /\ CollisionCalled
    /\ Len(call.pre) = 3
    /\ FirstOverlap(call.pre) = <<2, 3>>
    /\ KeysOf(bodies) = {call.pre[1].key, call.pre[2].key}
    /\ bodies[1] = call.pre[1]
    /\ bodies[2].mass = FAdd(call.pre[2].mass, call.pre[3].mass)

\* C9: handle_collisions and update_positions return normally, also when
\* a collision is detected and a key is removed during the scan.
C9_ReturnsNormally ==
    call.op \in {"handle_collisions", "update_positions"} => call.raised = "none"

\* C10: no body with a mass or a radius that is not positive is ever
\* constructed and stored in the dict.
C10_BodiesValid ==
    \A i \in 1..Len(bodies) :
        FGreater(bodies[i].mass, Num(0)) /\ FGreater(bodies[i].radius, Num(0))


\* C11: an integration step (Euler or RK4) on a dict that holds a body of
\* mass <= 0 raises a domain error.
C11_MasslessRaises ==
    (/\ call.op = "update_positions"
     /\ \E i \in 1..Len(call.pre) : ~FGreater(call.pre[i].mass, Num(0)))
    => call.raised = "DomainError"

\* apply_correction was called on a dict of finite bodies
CorrectionCalled == call.op = "apply_correction" /\ Finite(call.pre)

\* the sum of the masses of bs[i], bs[i+1], ...
RECURSIVE TotalMass(_, _)
TotalMass(bs, i) ==
    IF i > Len(bs) THEN Num(0) ELSE FAdd(bs[i].mass, TotalMass(bs, i + 1))

\* the sum of mass * position of bs[i], bs[i+1], ...
RECURSIVE MassMoment(_, _)
MassMoment(bs, i) ==
    IF i > Len(bs) THEN Zeros3
    ELSE VAdd(VScale(bs[i].position, bs[i].mass), MassMoment(bs, i + 1))

\* the linear momentum of bs[i], bs[i+1], ...
RECURSIVE Momentum(_, _)
Momentum(bs, i) ==
    IF i > Len(bs) THEN Zeros3
    ELSE VAdd(VScale(bs[i].velocity, bs[i].mass), Momentum(bs, i + 1))

\* C12: after apply_correction on a dict with non-zero total mass the
\* mass-weighted centre of mass is at the origin and the net linear
\* momentum (hence the mass-weighted mean velocity) is zero.
C12_CorrectionCentres ==
    (CorrectionCalled /\ TotalMass(call.pre, 1) # Num(0)) =>
        /\ MassMoment(bodies, 1) = Zeros3
        /\ Momentum(bodies, 1) = Zeros3
        /\ VDiv(MassMoment(bodies, 1), TotalMass(bodies, 1)) = Zeros3
        /\ VDiv(Momentum(bodies, 1), TotalMass(bodies, 1)) = Zeros3

\* a correction of three bodies whose centre of mass was off the origin and
\* whose momentum was not zero
C12_Witness ==
    /\ CorrectionCalled
    /\ Len(call.pre) = 3
    /\ TotalMass(call.pre, 1) # Num(0)
    /\ MassMoment(call.pre, 1) # Zeros3
    /\ Momentum(call.pre, 1) # Zeros3
    /\ MassMoment(bodies, 1) = Zeros3

\* C13: a second apply_correction right after the first changes no
\* position and no velocity.
C13_CorrectionIdempotent ==
    CorrectionCalled =>
        \A i \in 1..Len(bodies) :
            /\ apply_correction(bodies)[i].position = bodies[i].position
            /\ apply_correction(bodies)[i].velocity = bodies[i].velocity

\* a correction that moved a body, after which a second one moves none
C13_Witness ==
    /\ CorrectionCalled
    /\ \E i \in 1..Len(bodies) :
          /\ bodies[i].position # call.pre[i].position
          /\ bodies[i].velocity # call.pre[i].velocity
    /\ apply_correction(bodies) = bodies

\* C14: when the total mass is zero (as for the empty dict),
\* find_center_of_mass and find_center_of_mass_velocity return the zero
\* vector and apply_correction changes no body.
C14_ZeroMassUntouched ==
    TotalMass(call.pre, 1) = Num(0) =>
        /\ call.op \in {"find_center_of_mass", "find_center_of_mass_velocity"} =>
              call.ret = Zeros3
        /\ call.op = "apply_correction" => bodies = call.pre

\* a correction of two massless bodies that are off the origin and moving
C14_Witness ==
    /\ call.op = "apply_correction"
    /\ Len(call.pre) = 2
    /\ TotalMass(call.pre, 1) = Num(0)
    /\ call.pre[2].position # Zeros3
    /\ call.pre[2].velocity # Zeros3
    /\ bodies = call.pre

Queries ==
    {"calculate_gravitational_forces", "calculate_system_energy",
     "calculate_angular_momentum", "find_center_of_mass",
     "find_center_of_mass_velocity"}

\* C15: the five queries are read-only: after each the dict has the keys
\* it had and every body its mass, radius, position, velocity, acceleration
\* and trail.
C15_QueriesReadOnly ==
    call.op \in Queries =>
        /\ KeysOf(bodies) = KeysOf(call.pre)
        /\ Len(bodies) = Len(call.pre)
        /\ \A i \in 1..Len(call.pre) :
              \E k \in 1..Len(bodies) :
                 /\ bodies[k].key = call.pre[i].key
                 /\ bodies[k].mass = call.pre[i].mass
                 /\ bodies[k].radius = call.pre[i].radius
                 /\ bodies[k].position = call.pre[i].position
                 /\ bodies[k].velocity = call.pre[i].velocity
                 /\ bodies[k].acceleration = call.pre[i].acceleration
                 /\ bodies[k].trail = call.pre[i].trail

\* forces were computed for three bodies, none of them zero, and the dict
\* is as it was
C15_Witness ==
    /\ call.op = "calculate_gravitational_forces"
    /\ Len(call.pre) = 3
    /\ \A i \in 1..3 : call.ret[call.pre[i].key] # Zeros3
    /\ bodies = call.pre

OrbitCalled == call.op = "calculate_orbit_parameters"

\* self and central_body of that call, and self after it
OrbitSelf == call.pre[call.ret[1]]

OrbitCentral == Central(call.pre, call.ret[2])

OrbitSelfAfter == bodies[call.ret[1]]

\* the reference body is absent or the body itself, or the relative
\* distance, the relative speed or the specific angular momentum is zero
Degenerate(self, central_body) ==
    \/ central_body = None
    \/ central_body.key = self.key
    \/ self.position = central_body.position
    \/ self.velocity = central_body.velocity
    \/ Cross(VSub(self.position, central_body.position),
             VSub(self.velocity, central_body.velocity)) = Zeros3

\* C17: calculate_orbit_parameters does not raise; in a degenerate case it
\* leaves semi_major_axis, eccentricity, period and orbit_calculated as
\* they were, and it sets orbit_calculated only in a non-degenerate case.
C17_DegenerateOrbitUnset ==
    OrbitCalled =>
        /\ call.raised = "none"
        /\ Degenerate(OrbitSelf, OrbitCentral) =>
              /\ OrbitSelfAfter.semi_major_axis = OrbitSelf.semi_major_axis
              /\ OrbitSelfAfter.eccentricity = OrbitSelf.eccentricity
              /\ OrbitSelfAfter.period = OrbitSelf.period
              /\ OrbitSelfAfter.orbit_calculated = OrbitSelf.orbit_calculated
        /\ (OrbitSelfAfter.orbit_calculated /\ ~OrbitSelf.orbit_calculated)
              => ~Degenerate(OrbitSelf, OrbitCentral)

\* a call with distinct positions and distinct velocities but no angular
\* momentum: the elements stay unset
C17_Witness ==
    /\ OrbitCalled
    /\ call.ret[2] # 0
    /\ OrbitCentral.key # OrbitSelf.key
    /\ OrbitSelf.position # OrbitCentral.position
    /\ OrbitSelf.velocity # OrbitCentral.velocity
    /\ Degenerate(OrbitSelf, OrbitCentral)
    /\ ~OrbitSelfAfter.orbit_calculated

\* an Euler step that returned and merged nothing
EulerCalled ==
    /\ call.op = "update_positions"
    /\ ~use_rk4
    /\ call.raised = "none"
    /\ Len(bodies) = Len(call.pre)

\* C18: the trail is a bounded queue: it never holds more than
\* max_trail_length positions, every position update appends the new
\* position at its end, and once the cap is exceeded the oldest entry, and
\* only that, is dropped.
C18_TrailBoundedFifo ==
    /\ \A i \in 1..Len(bodies) : Len(bodies[i].trail) <= max_trail_length
    /\ EulerCalled =>
          \A i \in 1..Len(bodies) :
             LET appended == Append(call.pre[i].trail, bodies[i].position)
             IN  bodies[i].trail = IF Len(call.pre[i].trail) < max_trail_length
                                   THEN appended
                                   ELSE Tail(appended)

\* a position update on a full trail
C18_Witness ==
    /\ EulerCalled
    /\ Len(call.pre[1].trail) = max_trail_length
    /\ Len(bodies[1].trail) = max_trail_length
    /\ bodies[1].trail[1] = call.pre[1].trail[2]

\* an RK4 step that returned and merged nothing
Rk4Called ==
    /\ call.op = "update_positions"
    /\ use_rk4
    /\ call.raised = "none"
    /\ Len(bodies) = Len(call.pre)

\* C19: an RK4 step appends the final position of every body to its trail,
\* once: the trail grows by one entry (up to the cap) and ends with the
\* body's position.
C19_Rk4TrailGrows ==
    Rk4Called =>
        \A i \in 1..Len(bodies) :
           /\ Len(bodies[i].trail) = IF Len(call.pre[i].trail) < max_trail_length
                                     THEN Len(call.pre[i].trail) + 1
                                     ELSE max_trail_length
           /\ bodies[i].trail[Len(bodies[i].trail)] = bodies[i].position

\* the velocity an Euler step of dt gives bs[i]: the old one plus
\* (force / mass) * dt, the force being the net pull at the old positions
SteppedVelocity(bs, i, dt) ==
    VAdd(bs[i].velocity, VScale(VDiv(NetPull(bs, i, 1), bs[i].mass), dt))

\* C20: an Euler step gives every body of positive mass the velocity
\* v + (force / mass) * dt, with the force taken from the positions all
\* bodies had when the step began, then the position p + v_new * dt, and
\* appends that position to the trail once.
C20_EulerSemiImplicit ==
    (EulerCalled /\ Finite(call.pre)) =>
        \A i \in 1..Len(bodies) :
           FGreater(call.pre[i].mass, Num(0)) =>
              /\ bodies[i].velocity = SteppedVelocity(call.pre, i, call.ret)
              /\ bodies[i].position =
                    VAdd(call.pre[i].position,
                         VScale(SteppedVelocity(call.pre, i, call.ret), call.ret))
              /\ bodies[i].trail = Append(call.pre[i].trail, bodies[i].position)

\* an Euler step of two bodies that pull each other: the velocity of the
\* first has changed
C20_Witness ==
    /\ EulerCalled
    /\ Finite(call.pre)
    /\ Len(bodies) = 2
    /\ FGreater(call.pre[1].mass, Num(0))
    /\ NetPull(call.pre, 1, 1) # Zeros3
    /\ bodies[1].velocity # call.pre[1].velocity

\* every body has a finite positive mass
Massive(bs) == Finite(bs) /\ \A i \in 1..Len(bs) : FGreater(bs[i].mass, Num(0))

\* the rates of change in the state bs: of the position the velocity, of
\* the velocity the net pull divided by the mass
Rate(bs) ==
    [i \in 1..Len(bs) |->
        [position |-> bs[i].velocity,
         velocity |-> VDiv(NetPull(bs, i, 1), bs[i].mass)]]

\* the snapshot bs0 advanced by h along the rates k
Stage(bs0, k, h) ==
    [i \in 1..Len(bs0) |->
        [bs0[i] EXCEPT !.position = VAdd(bs0[i].position, VScale(k[i].position, h)),
                       !.velocity = VAdd(bs0[i].velocity, VScale(k[i].velocity, h))]]

\* the four stage rates of the classical Runge-Kutta scheme from bs0
K1(bs0, dt) == Rate(bs0)

K2(bs0, dt) == Rate(Stage(bs0, K1(bs0, dt), FDiv(dt, Num(2))))

K3(bs0, dt) == Rate(Stage(bs0, K2(bs0, dt), FDiv(dt, Num(2))))

K4(bs0, dt) == Rate(Stage(bs0, K3(bs0, dt), dt))

\* dt/6 * (a + 2b + 2c + d)
Weighted(a, b, c, d, dt) ==
    VScale(VAdd(VAdd(a, VScale(b, Num(2))), VAdd(VScale(c, Num(2)), d)), FDiv(dt, Num(6)))

\* C21: an RK4 step over bodies of positive mass evaluates the stages 2 to
\* 4 at the initial state advanced by 0.5*dt*k1, 0.5*dt*k2 and dt*k3, and
\* ends with position0 + dt/6*(k1 + 2*k2 + 2*k3 + k4) of the stage
\* velocities and velocity0 + the same weighting of the stage accelerations.
C21_Rk4FromSnapshot ==
    (Rk4Called /\ Massive(call.pre)) =>
        \A i \in 1..Len(bodies) :
           /\ bodies[i].position =
                 VAdd(call.pre[i].position,
                      Weighted(K1(call.pre, call.ret)[i].position,
                               K2(call.pre, call.ret)[i].position,
                               K3(call.pre, call.ret)[i].position,
                               K4(call.pre, call.ret)[i].position, call.ret))
           /\ bodies[i].velocity =
                 VAdd(call.pre[i].velocity,
                      Weighted(K1(call.pre, call.ret)[i].velocity,
                               K2(call.pre, call.ret)[i].velocity,
                               K3(call.pre, call.ret)[i].velocity,
                               K4(call.pre, call.ret)[i].velocity, call.ret))

\* an RK4 step of two bodies that pull each other, in which the stage
\* accelerations differ
C21_Witness ==
    /\ Rk4Called
    /\ Massive(call.pre)
    /\ Len(bodies) = 2
    /\ K1(call.pre, call.ret)[1].velocity # Zeros3
    /\ K2(call.pre, call.ret)[1].velocity # K1(call.pre, call.ret)[1].velocity
    /\ K4(call.pre, call.ret)[1].velocity # K3(call.pre, call.ret)[1].velocity

\* C22: an update_positions call invokes the force calculator once under
\* the Euler scheme and four times under RK4, the scheme being the one the
\* flag use_rk4 selects; handle_collisions runs once, and not before the
\* integration has finished: what the call leaves is handle_collisions of
\* the integrated dict.
C22_ForceCallsPerScheme ==
    /\ frame.pc \in {"euler_integration", "k1", "k2", "k3", "k4", "handle_collisions"}
          => frame.collision_calls = 0
    /\ frame.pc \in {"k1", "k2", "k3", "k4"} => use_rk4
    /\ frame.pc = "euler_integration" => ~use_rk4
    /\ frame.pc = "handle_collisions" =>
          /\ frame.force_calls = IF use_rk4 THEN 4 ELSE 1
          /\ bodies = IF use_rk4 THEN rk4_integration(frame.initial, frame.dt)
                      ELSE euler_integration(frame.initial, frame.dt)
    /\ frame.pc = "return" =>
          /\ frame.force_calls = IF use_rk4 THEN 4 ELSE 1
          /\ frame.collision_calls = 1
          /\ bodies = update_positions(frame.initial, frame.dt, use_rk4).bodies

\* an RK4 call over two bodies has returned
C22_Witness ==
    /\ frame.pc = "return"
    /\ use_rk4
    /\ frame.force_calls = 4
    /\ Len(frame.initial) = 2

\* C23, as stated: for every pair (i before j) at distinct positions the
\* vector F * (pos_j - pos_i) / r is added to the force of j and subtracted
\* from the force of i, so the force of every body is the opposite of the
\* net pull on it.
C23_AddedToLater ==
    ForcesCalled =>
        \A k \in 1..Len(call.pre) :
           call.ret[call.pre[k].key] = VScale(NetPull(call.pre, k, 1), Num(-1))

\* C23, amended: for every pair (i before j) at distinct positions the
\* vector F * (pos_j - pos_i) / r is added to the force of i and subtracted
\* from the force of j, so the force of every body is the net pull on it.
C23_AddedToEarlier ==
    ForcesCalled =>
        \A k \in 1..Len(call.pre) : call.ret[call.pre[k].key] = NetPull(call.pre, k, 1)

\* forces were computed for a pair of massive bodies, the first at the
\* origin and the second on +x: the force of the first has a positive x
\* component, F * direction itself
C23_Witness ==
    /\ ForcesCalled
    /\ Len(call.pre) = 2
    /\ call.pre[1].position = Vec(0, 0, 0)
    /\ FGreater(call.pre[2].position[1], Num(0))
    /\ FGreater(call.ret[call.pre[1].key][1], Num(0))
    /\ call.ret[call.pre[2].key] = VScale(call.ret[call.pre[1].key], Num(-1))

\* the energy was computed for a dict of finite bodies
EnergyCalled == call.op = "calculate_system_energy" /\ Finite(call.pre)

\* C24: calculate_system_energy returns the kinetic energies of all bodies
\* plus the potential energy -G*m1*m2/d of every unordered pair of distinct
\* bodies, each pair taken once, whatever the order in which the keys were
\* inserted.
C24_EnergyPairsOnce ==
    EnergyCalled => call.ret = ReferenceEnergy(call.pre, 1)

\* the energy of three massive bodies at three places, whose keys were
\* inserted in another order than the one the comparison of keys gives
C24_Witness ==
    /\ EnergyCalled
    /\ Len(call.pre) = 3
    /\ \A i \in 1..3 : FGreater(call.pre[i].mass, Num(0))
    /\ \A i, j \in 1..3 : i # j => call.pre[i].position # call.pre[j].position
    /\ KeyRank[call.pre[1].key] > KeyRank[call.pre[2].key]

\* handle_collisions was called on a dict of finite bodies
ScanCalled == call.op = "handle_collisions" /\ Finite(call.pre)

\* the body of call.pre with number k is in the dict after the call, as it was
Kept(k) == \E m \in 1..Len(bodies) : bodies[m] = call.pre[k]

\* C25: two bodies collide only if their centres are closer than the sum
\* of their radii, whichever of the two is asked: handle_collisions leaves
\* every body as it was that overlaps no other body, removes a key only if
\* its body overlaps an earlier one, and leaves a dict without overlapping
\* pair as it was.
C25_OnlyOverlapsMerge ==
    ScanCalled =>
        /\ \A i, j \in 1..Len(call.pre) :
              /\ is_collision_with(call.pre[i], call.pre[j])
                    = is_collision_with(call.pre[j], call.pre[i])
              /\ is_collision_with(call.pre[i], call.pre[j])
                    = Overlaps(call.pre[i], call.pre[j])
        /\ \A k \in 1..Len(call.pre) :
              /\ ~Kept(k) => \E j \in 1..Len(call.pre) :
                                j # k /\ Overlaps(call.pre[k], call.pre[j])
              /\ call.pre[k].key \notin KeysOf(bodies)
                    => \E i \in 1..(k - 1) : Overlaps(call.pre[i], call.pre[k])
        /\ OverlapPairs(call.pre) = {} => (bodies = call.pre /\ call.raised = "none")

\* a scan of a dict in which two bodies at different places just touch
\* (their distance is the sum of their radii) and none overlap: the dict is
\* as it was
C25_Witness ==
    /\ ScanCalled
    /\ OverlapPairs(call.pre) = {}
    /\ Len(call.pre) >= 2
    /\ call.pre[1].position # call.pre[2].position
    /\ Norm(VSub(call.pre[1].position, call.pre[2].position))
          = FAdd(call.pre[1].radius, call.pre[2].radius)
    /\ bodies = call.pre

\* C26: when the first body that overlaps a later one overlaps two later
\* bodies, and still overlaps the second of them after it absorbed the
\* first, one handle_collisions call removes the keys of both.
C26_AbsorbsBoth ==
    ScanCalled =>
        \A i, j, k \in 1..Len(call.pre) :
           (/\ j < k
            /\ OverlapPairs(call.pre) # {}
            /\ FirstOverlap(call.pre) = <<i, j>>
            /\ Overlaps(call.pre[i], call.pre[k])
            /\ Overlaps(merge_with(call.pre[i], call.pre[j]), call.pre[k]))
           => /\ call.pre[j].key \notin KeysOf(bodies)
              /\ call.pre[k].key \notin KeysOf(bodies)

\* C27: an update_positions call, whether it returns or raises, leaves the
\* sum of the masses as it was, adds no body and no key; while it
\* integrates, every body keeps its key, its mass and its radius.
C27_MassAndKeysKept ==
    /\ frame.pc \in {"k2", "k3", "k4", "handle_collisions"} =>
          /\ Len(bodies) = Len(frame.initial)
          /\ \A i \in 1..Len(bodies) :
                /\ bodies[i].key = frame.initial[i].key
                /\ bodies[i].mass = frame.initial[i].mass
                /\ bodies[i].radius = frame.initial[i].radius
    /\ frame.pc = "return" =>
          /\ TotalMass(bodies, 1) = TotalMass(frame.initial, 1)
          /\ Len(bodies) <= Len(frame.initial)
          /\ KeysOf(bodies) \subseteq KeysOf(frame.initial)

\* a call in which two massive bodies were merged, and which raised
C27_Witness ==
    /\ frame.pc = "return"
    /\ frame.raised = "RuntimeError"
    /\ Len(bodies) < Len(frame.initial)
    /\ \A i \in 1..Len(frame.initial) : FGreater(frame.initial[i].mass, Num(0))

\* the integration of an update_positions call over bodies of positive
\* mass has finished, and handle_collisions has not begun
Integrated == frame.pc = "handle_collisions" /\ Massive(frame.initial)

\* C28: one integration step, Euler or RK4, over bodies of positive mass
\* leaves the total linear momentum sum(mass * velocity) as it was.
C28_MomentumKept ==
    Integrated => Momentum(bodies, 1) = Momentum(frame.initial, 1)

\* an RK4 step of three massive bodies in which the first changed its
\* velocity
C28_Witness ==
    /\ Integrated
    /\ use_rk4
    /\ Len(bodies) = 3
    /\ bodies[1].velocity # frame.initial[1].velocity

\* update_physics was called
PhysicsCalled == call.op = "update_physics"

\* it was called with the simulation paused or without bodies
PhysicsIdle == call.before.is_simulation_paused \/ call.pre = <<>>

\* C29: update_physics integrates nothing and leaves simulation_time and
\* every body as they were when the simulation is paused or the dict is
\* empty; otherwise it makes one update_positions call with
\* time_step = dt * time_speed * 86400 and then advances simulation_time by
\* that time_step.
C29_ClockFollowsStep ==
    PhysicsCalled =>
        IF PhysicsIdle
        THEN /\ bodies = call.pre
             /\ simulator = call.before
        ELSE /\ call.ret = FMul(FMul(call.dt, call.before.time_speed), Num(86400))
             /\ bodies = update_positions(call.pre, call.ret, use_rk4).bodies
             /\ simulator = [call.before EXCEPT
                                !.simulation_time =
                                    FAdd(call.before.simulation_time, call.ret)]

\* C30: the UIManager's is_simulation_paused equals the simulator's, after
\* any clicks on the play/pause button and presses of SPACE.
C30_PauseFlagsAgree ==
    ui_manager.is_simulation_paused = simulator.is_simulation_paused

=============================================================================
